---- MODULE Spec2Model ----
(***************************************************************************)
(* A model of src/src/main.ts, the main process of the overlay: the        *)
(* clipboard poll timer, the completion call (analyzeContent), the         *)
(* 'ask-ai' dispatcher with executeAction, and the fullscreen monitor      *)
(* (checkFullscreen).  Strings are TLA+ strings; the JavaScript string     *)
(* methods the code uses (trim, startsWith, substring, JSON.parse) are     *)
(* computed character by character.                                        *)
(***************************************************************************)
EXTENDS Integers, Sequences, FiniteSets, TLC

VARIABLES
    clipboard,        \* the system clipboard (clipboard.readText / writeText)
    copiedContent,    \* main.ts:28, the last clipboard text the poll accepted
    sent,             \* mainWindow.webContents.send calls, in order
    reads,            \* the texts the clipboard timer has read, in order
    visible,          \* mainWindow.isVisible()
    isHiddenForFullscreen,  \* main.ts:341
    activeWindow,     \* what xdotool prints for the active window right now
    queries,          \* the exec('xdotool ...') calls whose callback has not run
    nQueries,         \* how many times fullscreenInterval has fired
    lastTick,         \* the last callback run: observation, state before and after, call
    run,              \* the current run of callbacks with one observation, and its calls
    config,           \* main.ts:47-60, the fields the pipeline reads
    reqs,             \* the runs of the Alt+C, 'analyze-speech' and 'ask-ai' handlers
    effects,          \* the calls made outside the process, in order
    app,              \* the application that has the focus: its selection, what it pasted
    confirms          \* the runs of the 'confirm-replacement' handler

clipVars == <<clipboard, copiedContent, sent, reads>>
presenceVars == <<visible, isHiddenForFullscreen, activeWindow, queries, nQueries,
                  lastTick, run>>
askVars == <<config, reqs, effects, app, confirms>>
vars == <<clipVars, presenceVars, askVars>>

----------------------------------------------------------------------------
(* Bounds of the model. *)

MaxPolls == 6
MaxQueries == 4
MaxPending == 2
MaxRequests == 1
MaxSaves == 1
MaxConfirms == 1
MaxOverlap == 2

----------------------------------------------------------------------------
(* JavaScript strings. *)

Min(a, b) == IF a < b THEN a ELSE b

Max(a, b) == IF a < b THEN b ELSE a

\* An index clamped to the string of length n.
Clamp(i, n) == Max(0, Min(i, n))

\* The characters of s after the first a and up to the b-th (or after the
\* first b and up to the a-th when b < a).
Slice(s, a, b) ==
    IF a = b THEN "" ELSE SubSeq(s, Min(a, b) + 1, Max(a, b))

\* s.substring(start, end): indexes from 0, end excluded, both clamped to the
\* string and swapped when start > end.
Substring(s, start, end) ==
    Slice(s, Clamp(start, Len(s)), Clamp(end, Len(s)))

\* The i-th character of s counted from 1, '' outside the string.
CharAt(s, i) == Substring(s, i - 1, i)

\* The characters String.prototype.trim removes (the ones the inputs use).
IsWhitespace(c) == c \in {" ", "\t", "\n", "\r"}

RECURSIVE TrimStart(_)
TrimStart(s) ==
    IF Len(s) > 0 /\ IsWhitespace(CharAt(s, 1))
    THEN TrimStart(Substring(s, 1, Len(s)))
    ELSE s

RECURSIVE TrimEnd(_)
TrimEnd(s) ==
    IF Len(s) > 0 /\ IsWhitespace(CharAt(s, Len(s)))
    THEN TrimEnd(Substring(s, 0, Len(s) - 1))
    ELSE s

\* s.trim()
Trim(s) == TrimEnd(TrimStart(s))

\* A JavaScript string used as a condition: '' is falsy.
Truthy(s) == s # ""

\* s.startsWith(p)
StartsWith(s, p) ==
    Substring(s, 0, Len(p)) = p

\* The index of the first occurrence of the character c in s at or after i,
\* 0 if none.
RECURSIVE IndexFrom(_, _, _)
IndexFrom(s, c, i) ==
    IF i > Len(s) THEN 0
    ELSE IF CharAt(s, i) = c THEN i
    ELSE IndexFrom(s, c, i + 1)

IndexOf(s, c) == IndexFrom(s, c, 1)

IsDigit(c) == c \in {"0", "1", "2", "3", "4", "5", "6", "7", "8", "9"}

DigitValue(c) ==
    CASE c = "0" -> 0 [] c = "1" -> 1 [] c = "2" -> 2 [] c = "3" -> 3
      [] c = "4" -> 4 [] c = "5" -> 5 [] c = "6" -> 6 [] c = "7" -> 7
      [] c = "8" -> 8 [] c = "9" -> 9

\* parseInt of a string of decimal digits.
RECURSIVE ParseInt(_)
ParseInt(d) ==
    IF Len(d) = 0 THEN 0
    ELSE 10 * ParseInt(Substring(d, 0, Len(d) - 1)) + DigitValue(CharAt(d, Len(d)))

\* The index after the longest run of digits of s that starts at i: (\d+).
RECURSIVE DigitsEnd(_, _)
DigitsEnd(s, i) ==
    IF i <= Len(s) /\ IsDigit(CharAt(s, i)) THEN DigitsEnd(s, i + 1) ELSE i

----------------------------------------------------------------------------
(* JavaScript values that cross the IPC channel. *)

Str(s) == [t |-> "str", s |-> s]
Num(n) == [t |-> "num", n |-> n]
Bool(b) == [t |-> "bool", b |-> b]
Null == [t |-> "null"]
Undef == [t |-> "undef"]
\* An object: f maps its keys (strings) to values.
Obj(f) == [t |-> "obj", f |-> f]
\* An array: a sequence of values.
Arr(a) == [t |-> "arr", a |-> a]

EmptyObject == Obj([k \in {} |-> Undef])

IsString(v) == v.t = "str"

\* v.k: reading a property of undefined or null throws a TypeError.
CanRead(v) == v.t \notin {"undef", "null"}

\* v.k for a value whose properties can be read: undefined when absent.
Get(v, k) ==
    IF v.t = "obj" /\ k \in DOMAIN v.f THEN v.f[k] ELSE Undef

\* A value used as a condition.
IsTruthy(v) ==
    CASE v.t = "undef" -> FALSE
      [] v.t = "null" -> FALSE
      [] v.t = "str" -> v.s # ""
      [] v.t = "num" -> v.n # 0
      [] v.t = "bool" -> v.b
      [] OTHER -> TRUE

\* `${v}` for the values the templates interpolate.
TemplateString(v) ==
    CASE v.t = "str" -> v.s
      [] v.t = "undef" -> "undefined"
      [] v.t = "null" -> "null"
      [] v.t = "bool" -> (IF v.b THEN "true" ELSE "false")
      [] OTHER -> "[object Object]"

\* webContents.send(channel, payload); req is the handler run that sent it
\* (0: the clipboard timer).
ReqMsg(i, channel, payload) == [ch |-> channel, arg |-> payload, req |-> i]

Msg(channel, payload) == ReqMsg(0, channel, payload)

----------------------------------------------------------------------------
(* JSON.parse, for the JSON the replies use: objects, strings without      *)
(* escapes, unsigned integers, true, false, null, and white space.         *)

ParseFailure == [ok |-> FALSE, v |-> Undef, next |-> 0]

RECURSIVE SkipWhitespace(_, _)
SkipWhitespace(s, i) ==
    IF i <= Len(s) /\ IsWhitespace(CharAt(s, i)) THEN SkipWhitespace(s, i + 1) ELSE i

\* The string literal whose opening quote is at i and closing quote at j
\* (0: there is none).
StringLiteral(s, i, j) ==
    IF CharAt(s, i) # "\"" \/ j = 0 THEN ParseFailure
    ELSE [ok |-> TRUE, v |-> Str(Substring(s, i, j - 1)), next |-> j + 1]

\* A string literal that starts at the quote at i.
ParseStringLiteral(s, i) ==
    StringLiteral(s, i, IndexFrom(s, "\"", i + 1))

\* The literal word w (true, false, null) at i, with value v.
ParseWord(s, i, w, v) ==
    IF Substring(s, i - 1, i - 1 + Len(w)) = w
    THEN [ok |-> TRUE, v |-> v, next |-> i + Len(w)]
    ELSE ParseFailure

\* The number whose digits are at i .. e - 1: no leading zero.
ParseNumber(s, i, e) ==
    IF e > i + 1 /\ CharAt(s, i) = "0" THEN ParseFailure
    ELSE [ok |-> TRUE, v |-> Num(ParseInt(Substring(s, i - 1, e - 1))), next |-> e]

RECURSIVE ParseValue(_, _), ParseMembers(_, _, _)

\* After a member: the end of the object at `after`, or a comma and the next
\* member.
MemberEnd(s, members, after) ==
    IF CharAt(s, after) = "}"
    THEN [ok |-> TRUE, v |-> Obj(members), next |-> after + 1]
    ELSE IF CharAt(s, after) = ","
         THEN ParseMembers(s, SkipWhitespace(s, after + 1), members)
         ELSE ParseFailure

\* The member key: val added to acc (a repeated key keeps its last value).
MemberValue(s, key, val, acc) ==
    IF ~val.ok THEN ParseFailure
    ELSE MemberEnd(s, (key.v.s :> val.v) @@ acc, SkipWhitespace(s, val.next))

MemberColon(s, key, colon, acc) ==
    IF CharAt(s, colon) # ":" THEN ParseFailure
    ELSE MemberValue(s, key, ParseValue(s, colon + 1), acc)

MemberKey(s, key, acc) ==
    IF ~key.ok THEN ParseFailure
    ELSE MemberColon(s, key, SkipWhitespace(s, key.next), acc)

\* The members of an object from the key at i on; acc holds the members read
\* so far.
ParseMembers(s, i, acc) ==
    MemberKey(s, ParseStringLiteral(s, i), acc)

\* An object whose first token after the brace is at j.
ParseObject(s, j) ==
    IF CharAt(s, j) = "}"
    THEN [ok |-> TRUE, v |-> EmptyObject, next |-> j + 1]
    ELSE ParseMembers(s, j, [k \in {} |-> Undef])

\* The JSON value that starts at i with the character c.
ParseValueAt(s, i, c) ==
    CASE c = "{" -> ParseObject(s, SkipWhitespace(s, i + 1))
      [] c = "\"" -> ParseStringLiteral(s, i)
      [] IsDigit(c) -> ParseNumber(s, i, DigitsEnd(s, i))
      [] c = "t" -> ParseWord(s, i, "true", Bool(TRUE))
      [] c = "f" -> ParseWord(s, i, "false", Bool(FALSE))
      [] c = "n" -> ParseWord(s, i, "null", Null)
      [] OTHER -> ParseFailure

ParseValueFrom(s, i) == ParseValueAt(s, i, CharAt(s, i))

\* A JSON value that starts at or after i (white space skipped).
ParseValue(s, i) == ParseValueFrom(s, SkipWhitespace(s, i))

\* The whole of s must be the value r and white space.
WholeValue(s, r) ==
    IF r.ok /\ SkipWhitespace(s, r.next) = Len(s) + 1 THEN r ELSE ParseFailure

\* JSON.parse(s): ok is FALSE where JSON.parse throws a SyntaxError.
JSONParse(s) == WholeValue(s, ParseValue(s, 1))

----------------------------------------------------------------------------
(* The clipboard timer, main.ts:296-302. *)

\* The texts the user may put on the system clipboard.
Texts == {"", " \n", "A", "B", "C", " A"}

\* The values copiedContent can hold: '' at start, or an accepted text.
NonBlankTexts == {t \in Texts : Truthy(Trim(t))}

\* The condition without the comparison with the last observed text.
PollAccepts_NoDedup(newContent, last) ==
    Truthy(Trim(newContent))

\* The condition testing the text itself instead of the trimmed text.
PollAccepts_NoTrim(newContent, last) ==
    newContent # last /\ Truthy(newContent)

\* main.ts:298, the condition of the poll.
PollAccepts(newContent, last) ==
    newContent # last /\ Truthy(Trim(newContent))

\* Another application (or the user) changes the system clipboard.
UserCopies(t) ==
    /\ clipboard' = t
    /\ UNCHANGED <<copiedContent, sent, reads>>
    /\ UNCHANGED <<presenceVars, askVars>>

\* One firing of clipboardInterval.
PollClipboard ==
    /\ Len(reads) < MaxPolls
    /\ LET newContent == clipboard IN
       /\ reads' = Append(reads, newContent)
       /\ IF PollAccepts(newContent, copiedContent)
          THEN /\ copiedContent' = newContent
               /\ sent' = Append(sent, Msg("content-copied", Str(newContent)))
          ELSE UNCHANGED <<copiedContent, sent>>
    /\ UNCHANGED clipboard
    /\ UNCHANGED <<presenceVars, askVars>>

----------------------------------------------------------------------------
(* The fullscreen monitor, main.ts:339-373. *)

\* main.ts:257-258, the primary display read in createWindow.
primaryDisplay == [workAreaSize |-> [width |-> 1920, height |-> 1080]]

screenWidth == primaryDisplay.workAreaSize.width

\* The lines of s, the first of which ends at i (0: s is one line).
RECURSIVE SplitLines(_)

SplitAt(s, i) ==
    IF i = 0 THEN <<s>>
    ELSE <<Substring(s, 0, i - 1)>> \o SplitLines(Substring(s, i, Len(s)))

\* stdout.split('\n')
SplitLines(s) == SplitAt(s, IndexOf(s, "\n"))

NoMatch == [matched |-> FALSE, width |-> "", height |-> "", x |-> "", y |-> ""]

\* /GEOMETRY:(\d+)x(\d+)\+(\d+)\+(\d+)/ tried at position p of the line, one
\* group after the other: a, b, c, d are where the groups start and e where
\* the last one ends.
MatchY(line, a, b, c, d, e) ==
    IF e > d + 1
    THEN [matched |-> TRUE,
          width |-> Substring(line, a - 1, b - 1), height |-> Substring(line, b, c - 1),
          x |-> Substring(line, c, d - 1), y |-> Substring(line, d, e - 1)]
    ELSE NoMatch

MatchX(line, a, b, c, d) ==
    IF d > c + 1 /\ CharAt(line, d) = "+"
    THEN MatchY(line, a, b, c, d, DigitsEnd(line, d + 1))
    ELSE NoMatch

MatchHeight(line, a, b, c) ==
    IF c > b + 1 /\ CharAt(line, c) = "+"
    THEN MatchX(line, a, b, c, DigitsEnd(line, c + 1))
    ELSE NoMatch

MatchWidth(line, a, b) ==
    IF b > a /\ CharAt(line, b) = "x"
    THEN MatchHeight(line, a, b, DigitsEnd(line, b + 1))
    ELSE NoMatch

GeometryMatchAt(line, p) ==
    IF Substring(line, p - 1, p + 8) = "GEOMETRY:"
    THEN MatchWidth(line, p + 9, DigitsEnd(line, p + 9))
    ELSE NoMatch

\* The match at p if there is one, else the leftmost match after p.
RECURSIVE GeometryMatchFrom(_, _)

MatchOrNext(line, p, m) ==
    IF m.matched \/ p > Len(line) THEN m
    ELSE GeometryMatchFrom(line, p + 1)

\* widthMatch.match(/GEOMETRY:.../) || []: the leftmost match at or after p.
GeometryMatchFrom(line, p) ==
    MatchOrNext(line, p, GeometryMatchAt(line, p))

GeometryMatch(line) == GeometryMatchFrom(line, 1)

\* lines.find(pred): the first line at or after i that starts with GEOMETRY,
\* 0 if none.
RECURSIVE FindGeometryLine(_, _)
FindGeometryLine(lines, i) ==
    IF i > Len(lines) THEN 0
    ELSE IF StartsWith(lines[i], "GEOMETRY") THEN i
    ELSE FindGeometryLine(lines, i + 1)

\* main.ts:353, the comparison with the work area of the primary display.
Classify(m) ==
    IF /\ m.matched
       /\ Truthy(m.width) /\ Truthy(m.height)
       /\ ParseInt(m.width) = screenWidth
       /\ ParseInt(m.height) = primaryDisplay.workAreaSize.height
    THEN "Fullscreen"
    ELSE "NotFullscreen"

\* main.ts:351-352: found is the index of widthMatch in lines, 0 if none.
ObserveLine(lines, found) ==
    IF found = 0 THEN "skip" ELSE Classify(GeometryMatch(lines[found]))

ObserveLines(lines) == ObserveLine(lines, FindGeometryLine(lines, 1))

\* main.ts:349-353: what the callback makes of the output of xdotool.
\* "skip": no line starts with GEOMETRY, nothing is done.
Observe(stdout) == ObserveLines(SplitLines(stdout))

\* What `xdotool getactivewindow getwindowgeometry --shell` may print.
Outputs ==
    { "WIDTH=1920\nHEIGHT=1080\n",
      "GEOMETRY:1920x1080+0+0\n",
      "X=0\nGEOMETRY:1920x1080+0+27\n",
      "GEOMETRY:800x600+10+20\n",
      "GEOMETRY:1920x1000+0+0\n",
      "GEOMETRY:1920x1080\n" }

\* The hide condition without the test of the flag.
ShouldHide_IgnoresFlag(flag, vis) == vis

\* The show condition without the test of the flag.
ShouldShow_IgnoresFlag(flag, vis) == ~vis

\* main.ts:355, the condition of the hide.
ShouldHide(flag, vis) == ~flag /\ vis

\* main.ts:361, the condition of the show.
ShouldShow(flag, vis) == flag /\ ~vis

\* The active window changes (another application takes the focus, or the
\* focused one changes its size).
ActiveWindowChanges(out) ==
    /\ activeWindow' = out
    /\ UNCHANGED <<visible, isHiddenForFullscreen, queries, nQueries, lastTick, run>>
    /\ UNCHANGED <<clipVars, askVars>>

\* The window manager hides the overlay (the monitor reads the visibility
\* from the window, it does not own it).
WindowManagerHides ==
    /\ visible
    /\ visible' = FALSE
    /\ UNCHANGED <<isHiddenForFullscreen, activeWindow, queries, nQueries, lastTick, run>>
    /\ UNCHANGED <<clipVars, askVars>>

\* The window manager maps the overlay again.
WindowManagerShows ==
    /\ ~visible
    /\ visible' = TRUE
    /\ UNCHANGED <<isHiddenForFullscreen, activeWindow, queries, nQueries, lastTick, run>>
    /\ UNCHANGED <<clipVars, askVars>>

\* fullscreenInterval fires: checkFullscreen starts xdotool, main.ts:343-346.
CheckFullscreen ==
    /\ nQueries < MaxQueries
    /\ Len(queries) < MaxPending
    /\ nQueries' = nQueries + 1
    /\ queries' = Append(queries, [state |-> "running", error |-> FALSE, stdout |-> ""])
    /\ UNCHANGED <<visible, isHiddenForFullscreen, activeWindow, lastTick, run>>
    /\ UNCHANGED <<clipVars, askVars>>

\* The xdotool process of query i ends: it fails, or it printed the geometry
\* of the window that is active now.
XdotoolExits(i, fails) ==
    /\ i \in 1..Len(queries)
    /\ queries[i].state = "running"
    /\ queries' = [queries EXCEPT ![i] =
                      [state |-> "exited", error |-> fails,
                       stdout |-> IF fails THEN "" ELSE activeWindow]]
    /\ UNCHANGED <<visible, isHiddenForFullscreen, activeWindow, nQueries, lastTick, run>>
    /\ UNCHANGED <<clipVars, askVars>>

RemoveAt(seq, i) ==
    SubSeq(seq, 1, i - 1) \o SubSeq(seq, i + 1, Len(seq))

\* The callback with a show that does not test the flag.
MonitorCall_ShowsUnflagged(obs, flag, vis) ==
    IF obs = "Fullscreen" /\ ShouldHide(flag, vis) THEN "hide"
    ELSE IF obs = "NotFullscreen" /\ ~vis THEN "show"
    ELSE "none"

\* The call the callback makes for an observation in a state.
MonitorCall(obs, flag, vis) ==
    IF obs = "Fullscreen" /\ ShouldHide(flag, vis) THEN "hide"
    ELSE IF obs = "NotFullscreen" /\ ShouldShow(flag, vis) THEN "show"
    ELSE "none"

\* The callback of exec for query i, main.ts:346-368.
ExecCallback(i) ==
    /\ i \in 1..Len(queries)
    /\ queries[i].state = "exited"
    /\ queries' = RemoveAt(queries, i)
    /\ \E obs \in {IF queries[i].error THEN "skip" ELSE Observe(queries[i].stdout)} :
       LET call == MonitorCall(obs, isHiddenForFullscreen, visible)
       IN  /\ isHiddenForFullscreen' =
                  (CASE call = "hide" -> TRUE
                     [] call = "show" -> FALSE
                     [] OTHER -> isHiddenForFullscreen)
           /\ visible' =
                  (CASE call = "hide" -> FALSE
                     [] call = "show" -> TRUE
                     [] OTHER -> visible)
           /\ lastTick' = [obs |-> obs, vis |-> visible, flag |-> isHiddenForFullscreen,
                           call |-> call, visAfter |-> visible',
                           flagAfter |-> isHiddenForFullscreen',
                           stdout |-> queries[i].stdout, error |-> queries[i].error,
                           hides |-> lastTick.hides + (IF call = "hide" THEN 1 ELSE 0),
                           shows |-> lastTick.shows + (IF call = "show" THEN 1 ELSE 0)]
           /\ run' = IF obs = run.obs
                     THEN [run EXCEPT !.hides = @ + (IF call = "hide" THEN 1 ELSE 0),
                                      !.shows = @ + (IF call = "show" THEN 1 ELSE 0)]
                     ELSE [obs |-> obs,
                           hides |-> IF call = "hide" THEN 1 ELSE 0,
                           shows |-> IF call = "show" THEN 1 ELSE 0]
    /\ UNCHANGED <<activeWindow, nQueries>>
    /\ UNCHANGED <<clipVars, askVars>>

----------------------------------------------------------------------------
(* executeAction, main.ts:159-235. *)

\* main.ts:47-60.
DefaultConfig == [apiKey |-> "", model |-> "x-ai/grok-4-fast:free", language |-> "en"]

\* process.platform of the machine the model runs on (the monitor only
\* starts on linux, main.ts:371).
platform == "linux"

\* The characters encodeURIComponent leaves as they are.
Unreserved ==
    { "a", "b", "c", "d", "e", "f", "g", "h", "i", "j", "k", "l", "m", "n", "o",
      "p", "q", "r", "s", "t", "u", "v", "w", "x", "y", "z",
      "A", "B", "C", "D", "E", "F", "G", "H", "I", "J", "K", "L", "M", "N", "O",
      "P", "Q", "R", "S", "T", "U", "V", "W", "X", "Y", "Z",
      "0", "1", "2", "3", "4", "5", "6", "7", "8", "9",
      "-", "_", ".", "!", "~", "*", "'", "(", ")" }

\* The escape of the other characters the queries use.
PercentEscape(c) ==
    CASE c = " " -> "%20" [] c = "&" -> "%26" [] c = "+" -> "%2B"
      [] c = "/" -> "%2F" [] c = ":" -> "%3A" [] c = "=" -> "%3D"
      [] c = "?" -> "%3F" [] c = "#" -> "%23"

\* encodeURIComponent(s)
RECURSIVE EncodeURIComponent(_)
EncodeURIComponent(s) ==
    IF s = "" THEN ""
    ELSE LET c == CharAt(s, 1) IN
         (IF c \in Unreserved THEN c ELSE PercentEscape(c))
             \o EncodeURIComponent(Substring(s, 1, Len(s)))

\* The message of the TypeError thrown by reading property k of v.
ReadErrorMessage(v, k) ==
    "Cannot read properties of " \o TemplateString(v) \o " (reading '" \o k \o "')"

\* The message of the TypeError thrown by a call that is given no string.
ArgumentErrorMessage == "argument must be of type string"

\* main.ts:231-234, the outer catch.
ActionError(message) == Str("Error executing action: " \o message \o ".")

\* main.ts:187-193.
OpenAppCommand(os, appName) ==
    IF os = "win32" THEN "start " \o appName
    ELSE IF os = "darwin" THEN "open -a \"" \o appName \o "\""
    ELSE "xdg-open \"" \o appName \o "\" || " \o appName

\* The condition of the external open without the test of the prefix.
UrlAllowed_AnyUrl(url) == IsTruthy(url)

\* main.ts:220, the condition of the external open.
UrlAllowed(url) ==
    IsTruthy(url) /\ StartsWith(url.s, "http")

\* The reported text cut one character early.
CopiedPreview_OffByOne(text) == Substring(text, 0, 49)

\* main.ts:215, the text the copy_text handler reports.
CopiedPreview(text) == Substring(text, 0, 50)

NoCall == [kind |-> "none", arg |-> ""]

\* executeAction returned `result` without waiting for anything outside the
\* process; calls: the calls it made outside the process; writes: whether it
\* wrote `text` to the clipboard.
Returned(result, calls, writes, text) ==
    [done |-> TRUE, result |-> result, wait |-> NoCall, calls |-> calls,
     writes |-> writes, text |-> text]

Returns(result) == Returned(result, <<>>, FALSE, "")

\* executeAction awaits `call` (exec or shell.openExternal).
Awaits(call) ==
    [done |-> FALSE, result |-> Undef, wait |-> call, calls |-> <<call>>,
     writes |-> FALSE, text |-> ""]

\* Reading params.k threw: the outer catch returns.
Throws(params, k) == Returns(ActionError(ReadErrorMessage(params, k)))

\* main.ts:165-169.
BeginRunCommand(command) ==
    IF ~IsString(command)
    THEN Returns(Str("Error executing \"" \o TemplateString(command) \o "\": "
                     \o ArgumentErrorMessage))
    ELSE Awaits([kind |-> "exec", arg |-> command.s])

\* main.ts:184-196.
BeginOpenApp(appName) ==
    Awaits([kind |-> "exec", arg |-> OpenAppCommand(platform, TemplateString(appName))])

\* main.ts:209-212: the open is not awaited.
BeginPlayMusic(query) ==
    Returned(Str("Playing: " \o TemplateString(query)),
             <<[kind |-> "openExternal",
                arg |-> "https://music.youtube.com/search?q="
                            \o EncodeURIComponent(TemplateString(query))]>>,
             FALSE, "")

\* main.ts:213-215.
BeginCopyText(text) ==
    IF ~IsString(text) THEN Returns(ActionError(ArgumentErrorMessage))
    ELSE Returned(Str("Copied: " \o CopiedPreview(text.s) \o "..."),
                  <<[kind |-> "clipboard.writeText", arg |-> text.s]>>,
                  TRUE, text.s)

\* main.ts:216-217.
BeginAnalysis(analysis) ==
    IF IsTruthy(analysis) THEN Returns(analysis)
    ELSE Returns(Str("No analysis provided."))

\* main.ts:218-224.
BeginOpenUrl(url) ==
    IF IsTruthy(url) /\ ~IsString(url)
    THEN Returns(ActionError("url.startsWith is not a function"))
    ELSE IF UrlAllowed(url)
         THEN Awaits([kind |-> "openExternal", arg |-> url.s])
         ELSE Returns(Str("Invalid URL provided."))

\* main.ts:225-227.
BeginSearchWeb(query) ==
    Awaits([kind |-> "openExternal",
            arg |-> "https://www.google.com/search?q="
                        \o EncodeURIComponent(TemplateString(query))])

\* The property of params each handler reads first.
FirstParam(action) ==
    CASE action = Str("run_command") -> "command"
      [] action = Str("open_app") -> "appName"
      [] action = Str("play_music") -> "query"
      [] action = Str("copy_text") -> "text"
      [] action = Str("analysis") -> "analysis"
      [] action = Str("open_url") -> "url"
      [] action = Str("search_web") -> "query"
      [] OTHER -> ""

\* The branch of executeAction for `action`, whose first parameter is `param`.
BeginBranch(action, params, param) ==
    IF FirstParam(action) = "" THEN Returns(Str("Action completed."))
    ELSE IF ~CanRead(params) THEN Throws(params, FirstParam(action))
    ELSE CASE action = Str("run_command") -> BeginRunCommand(param)
           [] action = Str("open_app") -> BeginOpenApp(param)
           [] action = Str("play_music") -> BeginPlayMusic(param)
           [] action = Str("copy_text") -> BeginCopyText(param)
           [] action = Str("analysis") -> BeginAnalysis(param)
           [] action = Str("open_url") -> BeginOpenUrl(param)
           [] action = Str("search_web") -> BeginSearchWeb(param)

BeginAction(action, params) ==
    BeginBranch(action, params, Get(params, FirstParam(action)))

\* The synchronous part of executeAction: up to its first await that waits
\* for something outside the process, or to its return.
ExecuteActionBegin(actionData) ==
    BeginAction(Get(actionData, "action"), Get(actionData, "params"))

\* main.ts:172-179 and 197-204: the report of a command that ended well.
CommandReport(head, stdout, stderr) ==
    head \o (IF Truthy(Trim(stdout)) THEN "\n\nOutput:\n" \o stdout ELSE "")
         \o (IF Truthy(Trim(stderr)) THEN "\n\nErrors:\n" \o stderr ELSE "")

\* How an awaited call may end: exec gives its output or an error,
\* shell.openExternal resolves or rejects.
Endings ==
    { [error |-> FALSE, stdout |-> "hi\n", stderr |-> "", message |-> ""],
      [error |-> FALSE, stdout |-> "", stderr |-> "", message |-> ""],
      [error |-> FALSE, stdout |-> " \n", stderr |-> "warn\n", message |-> ""],
      [error |-> TRUE, stdout |-> "", stderr |-> "", message |-> "Command failed"] }

\* The result of executeAction once the call it awaited has ended.
EndAction(action, params, ending) ==
    CASE action = Str("run_command") ->
           IF ending.error
           THEN Str("Error executing \"" \o Get(params, "command").s \o "\": "
                    \o ending.message)
           ELSE Str(CommandReport("Executed: " \o Get(params, "command").s,
                                  ending.stdout, ending.stderr))
      [] action = Str("open_app") ->
           IF ending.error
           THEN Str("Error opening \"" \o TemplateString(Get(params, "appName"))
                    \o "\": " \o ending.message)
           ELSE Str(CommandReport("Opened: " \o TemplateString(Get(params, "appName")),
                                  ending.stdout, ending.stderr))
      [] action = Str("open_url") ->
           IF ending.error THEN ActionError(ending.message)
           ELSE Str("Opened: " \o Get(params, "url").s)
      [] action = Str("search_web") ->
           IF ending.error THEN ActionError(ending.message)
           ELSE Str("Searching: " \o TemplateString(Get(params, "query")))

\* The rest of executeAction once the awaited call has ended: its result.
ExecuteActionEnd(actionData, ending) ==
    EndAction(Get(actionData, "action"), Get(actionData, "params"), ending)

----------------------------------------------------------------------------
(* analyzeContent, main.ts:108-157. *)

NoKeyMessage == "No OpenRouter API key set. Press F1 to configure."
InvalidKeyMessage == "Invalid API key (401). Press F1 to update it."
NetworkErrorMessage == "Network error or API unavailable. Please check your connection."
ModelMessage(model) == "Model '" \o model \o "' not available. Press F1 to change it."

\* The key check that posts whatever the key is.
HasApiKey_Always(cfg) == TRUE

\* main.ts:109, the key check.
HasApiKey(cfg) == Truthy(cfg.apiKey)

\* main.ts:115-122 and 126-140: what the call posts.
RequestBody(cfg, content, isAction) ==
    [model |-> cfg.model,
     system |-> [mode |-> IF isAction THEN "action" ELSE "summary",
                 language |-> IF cfg.language = "sv" THEN "Respond in Swedish."
                              ELSE "Respond in English."],
     user |-> IF isAction THEN "Process this user request: " \o content
              ELSE "Please analyze and summarize this content:\n\n" \o content,
     authorization |-> "Bearer " \o cfg.apiKey]

Thrown == [thrown |-> TRUE, value |-> Undef]

\* main.ts:145, choices[0].message.content.
FirstContent(first) ==
    IF CanRead(first) /\ CanRead(Get(first, "message"))
    THEN [thrown |-> FALSE, value |-> Get(Get(first, "message"), "content")]
    ELSE Thrown

\* main.ts:144-148 for response.data.choices = choices.
ChoicesContent(choices) ==
    IF choices.t = "arr" /\ Len(choices.a) > 0 THEN FirstContent(choices.a[1])
    ELSE Thrown

\* main.ts:144-148: the reply read from response.data, or a throw (of the
\* Error of line 147, or of a TypeError of the property reads).
ReadChoices(data) ==
    IF ~CanRead(data) THEN Thrown ELSE ChoicesContent(Get(data, "choices"))

\* main.ts:149-156, the catch: err.axios is axios.isAxiosError(error),
\* err.status the status of error.response (0: there is no response).
AnalyzeCatch(err, cfg) ==
    IF err.axios /\ err.status # 0
    THEN IF err.status = 401 THEN Str(InvalidKeyMessage)
         ELSE IF err.status = 404 \/ err.status = 400 THEN Str(ModelMessage(cfg.model))
         ELSE Str(NetworkErrorMessage)
    ELSE Str(NetworkErrorMessage)

\* main.ts:113-156 for a response with status 200.
ReturnOf(r, cfg) ==
    IF r.thrown THEN AnalyzeCatch([axios |-> FALSE, status |-> 0], cfg)
    ELSE r.value

\* What analyzeContent returns once axios.post has settled with `response`.
AnalyzeReturn(response, cfg) ==
    IF response.kind = "ok" THEN ReturnOf(ReadChoices(response.data), cfg)
    ELSE AnalyzeCatch([axios |-> TRUE, status |-> response.status], cfg)

----------------------------------------------------------------------------
(* The replies of the model and the ways axios.post settles. *)

Quoted(s) == "\"" \o s \o "\""

\* {"action": <action>, "params": {<key>: <value>}}
ActionReply(action, key, value) ==
    "{" \o Quoted("action") \o ":" \o Quoted(action) \o ","
        \o Quoted("params") \o ":{" \o Quoted(key) \o ":" \o Quoted(value) \o "}}"

\* {"action": <action>, "params": {}}
BareReply(action) ==
    "{" \o Quoted("action") \o ":" \o Quoted(action) \o "," \o Quoted("params") \o ":{}}"

\* A text of 80 characters, and its first 50 and 51.
Text80 == "0123456789abcdefghijABCDEFGHIJ0123456789klmnopqrstKLMNOPQRST0123456789uvwxyzUVWX"
Text50 == "0123456789abcdefghijABCDEFGHIJ0123456789klmnopqrst"
Text51 == "0123456789abcdefghijABCDEFGHIJ0123456789klmnopqrstK"

ProseReplies ==
    { "Hello, how can I help?",
      "{\"action\":\"open_url\",",
      "Sure: {\"action\":\"analysis\",\"params\":{}}",
      "" }

ScalarReplies == { "42", "null", "\"done\"" }

UnknownActionReplies ==
    { BareReply("delete_everything"),
      ActionReply("type_text", "text", "hi"),
      "{\"params\":{}}",
      "{\"action\":\"chat\",\"response\":\"Hi there\"}",
      ActionReply("chat", "response", "Hi there") }

OpenUrlReplies ==
    { ActionReply("open_url", "url", "https://example.com/a"),
      ActionReply("open_url", "url", "file:///etc/passwd"),
      ActionReply("open_url", "url", "httpx"),
      ActionReply("open_url", "url", "ftp://http"),
      ActionReply("open_url", "url", ""),
      BareReply("open_url"),
      "{\"action\":\"open_url\",\"params\":{\"url\":7}}",
      "{\"action\":\"open_url\"}" }

CopyTextReplies ==
    { ActionReply("copy_text", "text", Text80),
      ActionReply("copy_text", "text", Text50),
      ActionReply("copy_text", "text", Text51),
      ActionReply("copy_text", "text", "abc"),
      ActionReply("copy_text", "text", ""),
      BareReply("copy_text") }

OtherActionReplies ==
    { ActionReply("run_command", "command", "echo hi"),
      BareReply("run_command"),
      ActionReply("open_app", "appName", "firefox"),
      ActionReply("play_music", "query", "lo-fi beats"),
      ActionReply("search_web", "query", "what is tla+?"),
      ActionReply("analysis", "analysis", "# Summary"),
      BareReply("analysis"),
      "{\"action\":\"analysis\"}",
      ActionReply("replace_text", "newText", "fixed text"),
      BareReply("replace_text"),
      "{\"action\":\"replace_text\"}" }

Replies ==
    ProseReplies \cup ScalarReplies \cup UnknownActionReplies \cup OpenUrlReplies
        \cup CopyTextReplies \cup OtherActionReplies

\* response.data of a completion that carries `content` in its first choice.
BodyWith(content) ==
    Obj("choices" :> Arr(<<Obj("message" :> Obj("content" :> content))>>))

\* The bodies of the responses with status 200.
Bodies ==
    {BodyWith(Str(r)) : r \in Replies}
        \cup { BodyWith(Null),
               Obj("choices" :> Arr(<<>>)),
               EmptyObject,
               Obj("choices" :> Arr(<<EmptyObject>>)),
               Null }

\* The ways axios.post settles: a response with status 200, a response with
\* an error status, the 15 s timeout, a transport error.
Settlements ==
    {[kind |-> "ok", status |-> 200, data |-> d] : d \in Bodies}
        \cup {[kind |-> "http", status |-> st, data |-> Undef] : st \in {400, 401, 404, 500}}
        \cup {[kind |-> k, status |-> 0, data |-> Undef] : k \in {"timeout", "network"}}

NotSettled == [kind |-> "pending", status |-> 0, data |-> Undef]

----------------------------------------------------------------------------
(* The 'ask-ai' handler, main.ts:414-440, the Alt+C shortcut, main.ts:     *)
(* 305-316, and the 'analyze-speech' handler, main.ts:405-412.             *)

\* main.ts:421.
silentActions ==
    {"play_music", "open_url", "type_text", "copy_text", "search_web", "run_command",
     "open_app"}

\* main.ts:426-430, the channel of the result of executeAction.
ResultChannel(actionData) ==
    IF Get(actionData, "action") = Str("run_command") THEN "analysis-complete"
    ELSE "action-completed"

Route(r, parsedOk, actionData, ch, payload) ==
    [route |-> r, parsed |-> parsedOk, actionData |-> actionData,
     channel |-> ch, payload |-> payload]

\* main.ts:434.
ResponseOrNotice(response) ==
    IF IsTruthy(response) THEN response ELSE Str("Action completed.")

\* The routing with replace_text among the actions executed at once.
RouteAction_ExecutesReplace(actionData, action, params, response, copied) ==
    IF IsString(action) /\ action.s \in silentActions \cup {"replace_text"}
    THEN Route("execute", TRUE, actionData, "", Undef)
    ELSE IF action = Str("analysis")
         THEN IF ~CanRead(params)
              THEN Route("catch", TRUE, actionData, "ask-complete", response)
              ELSE Route("analysis", TRUE, actionData, "analysis-complete",
                         Get(params, "analysis"))
    ELSE Route("other", TRUE, actionData, "ask-complete",
               ResponseOrNotice(Get(actionData, "response")))

\* main.ts:422-435 for the parsed reply actionData, whose properties can be
\* read; `response` is the reply as received.
RouteAction(actionData, action, params, response, copied) ==
    IF action = Str("replace_text")
    THEN IF ~CanRead(params) THEN Route("catch", TRUE, actionData, "ask-complete", response)
         ELSE Route("replace_text", TRUE, actionData, "text-replacement",
                    Obj("oldText" :> Str(copied) @@ "newText" :> Get(params, "newText")))
    ELSE IF IsString(action) /\ action.s \in silentActions
         THEN Route("execute", TRUE, actionData, "", Undef)
    ELSE IF action = Str("analysis")
         THEN IF ~CanRead(params)
              THEN Route("catch", TRUE, actionData, "ask-complete", response)
              ELSE Route("analysis", TRUE, actionData, "analysis-complete",
                         Get(params, "analysis"))
    ELSE Route("other", TRUE, actionData, "ask-complete",
               ResponseOrNotice(Get(actionData, "response")))

\* The dispatch with a catch that reports the parse error instead of the reply.
DispatchParsed_ReportsError(parsed, response, copied) ==
    IF ~parsed.ok
    THEN Route("catch", FALSE, Undef, "ask-complete",
               Str("Error: the reply is not valid JSON."))
    ELSE IF ~CanRead(parsed.v)
         THEN Route("catch", TRUE, parsed.v, "ask-complete", response)
    ELSE RouteAction(parsed.v, Get(parsed.v, "action"), Get(parsed.v, "params"),
                     response, copied)

\* main.ts:419-438 for the outcome `parsed` of JSON.parse: a throw in the try
\* block (of JSON.parse, or of a property read) is caught at 436-437.
DispatchParsed(parsed, response, copied) ==
    IF ~parsed.ok THEN Route("catch", FALSE, Undef, "ask-complete", response)
    ELSE IF ~CanRead(parsed.v)
         THEN Route("catch", TRUE, parsed.v, "ask-complete", response)
    ELSE RouteAction(parsed.v, Get(parsed.v, "action"), Get(parsed.v, "params"),
                     response, copied)

\* main.ts:419-438: where the reply of the model is routed, and what is sent
\* at once.  route "execute" sends nothing yet: executeAction is called.
Dispatch(response, copied) ==
    DispatchParsed(JSONParse(TemplateString(response)), response, copied)

\* The call executeAction awaits has not ended.
NoEnding == [error |-> FALSE, stdout |-> "", stderr |-> "", message |-> "pending"]

\* A run of a handler that has called analyzeContent(content, isAction).
NewRequest(trigger, content, isAction) ==
    [trigger |-> trigger, content |-> content, isAction |-> isAction,
     pc |-> "net", invoked |-> TRUE, keyAtCall |-> config.apiKey, netCalls |-> 0,
     copiedAtCall |-> copiedContent,
     body |-> RequestBody(config, "", isAction), settled |-> NotSettled,
     returned |-> FALSE, response |-> Undef,
     route |-> "", actionData |-> Undef, wait |-> NoCall, executed |-> FALSE,
     ending |-> NoEnding]

Calls(id, calls) ==
    [k \in 1..Len(calls) |-> [req |-> id, kind |-> calls[k].kind, arg |-> calls[k].arg]]

\* The 'ask-ai' handler run `id` once the reply is routed as d: it sends its
\* message, or calls executeAction, whose synchronous part is b.
Routed(id, r1, d, b, sentBefore, reqsBefore) ==
    IF d.route # "execute"
    THEN /\ sent' = Append(sentBefore, ReqMsg(id, d.channel, d.payload))
         /\ reqs' = [reqsBefore EXCEPT ![id] =
                        [r1 EXCEPT !.pc = "done", !.route = d.route,
                                   !.actionData = d.actionData]]
         /\ UNCHANGED <<effects, clipboard>>
    ELSE /\ effects' = effects \o Calls(id, b.calls)
         /\ clipboard' = IF b.writes THEN b.text ELSE clipboard
         /\ sent' = IF b.done
                    THEN Append(sentBefore,
                                ReqMsg(id, ResultChannel(d.actionData), b.result))
                    ELSE sentBefore
         /\ reqs' = [reqsBefore EXCEPT ![id] =
                        [r1 EXCEPT !.pc = IF b.done THEN "done" ELSE "effect",
                                   !.route = d.route, !.actionData = d.actionData,
                                   !.wait = b.wait, !.executed = TRUE]]

\* The handler run `id` from the return of analyzeContent with `response` to
\* its next await or its end; sentBefore and reqsBefore are what the run has
\* sent and recorded before.
Continue(id, req, response, sentBefore, reqsBefore) ==
    IF req.trigger # "ask-ai"
    THEN /\ sent' = Append(sentBefore, ReqMsg(id, "analysis-complete", response))
         /\ reqs' = [reqsBefore EXCEPT ![id] =
                        [req EXCEPT !.pc = "done", !.returned = TRUE,
                                    !.response = response]]
         /\ UNCHANGED <<effects, clipboard>>
    ELSE \E d \in {Dispatch(response, copiedContent)} :
         \E b \in {ExecuteActionBegin(d.actionData)} :
            Routed(id, [req EXCEPT !.returned = TRUE, !.response = response],
                   d, b, sentBefore, reqsBefore)

\* The call of analyzeContent behind a guard that lets one call be in flight:
\* a run that starts while another waits is ended without a call.
Invoke_InFlightGuard(id, req, content, sent1) ==
    IF \E j \in 1..Len(reqs) : reqs[j].pc = "net"
    THEN /\ reqs' = Append(reqs, [req EXCEPT !.pc = "done"])
         /\ sent' = sent1
         /\ UNCHANGED <<effects, clipboard>>
    ELSE IF HasApiKey(config)
    THEN /\ reqs' = Append(reqs, [req EXCEPT !.netCalls = 1,
                              !.body = RequestBody(config, content, req.isAction)])
         /\ sent' = sent1
         /\ UNCHANGED <<effects, clipboard>>
    ELSE Continue(id, req, Str(NoKeyMessage), sent1, Append(reqs, req))

\* A handler has sent 'analyzing' (sent1) and calls analyzeContent: without a
\* key the call returns at once, with a key it posts and the handler waits.
Invoke(id, req, content, sent1) ==
    IF HasApiKey(config)
    THEN /\ reqs' = Append(reqs, [req EXCEPT !.netCalls = 1,
                              !.body = RequestBody(config, content, req.isAction)])
         /\ sent' = sent1
         /\ UNCHANGED <<effects, clipboard>>
    ELSE Continue(id, req, Str(NoKeyMessage), sent1, Append(reqs, req))

Begin(trigger, content, isAction) ==
    Invoke(Len(reqs) + 1, NewRequest(trigger, content, isAction), content,
           Append(sent, ReqMsg(Len(reqs) + 1, "analyzing", Undef)))

\* ipcMain.on('ask-ai'), main.ts:414-418.
AskAi(query) ==
    /\ Begin("ask-ai",
             IF Truthy(Trim(copiedContent))
             THEN "The current clipboard/highlighted text is: \"" \o copiedContent
                      \o "\". User request: " \o query
             ELSE query,
             TRUE)
    /\ UNCHANGED <<copiedContent, reads, config, app, confirms>>
    /\ UNCHANGED presenceVars

\* ipcMain.on('analyze-speech'), main.ts:405-409.
AnalyzeSpeech(content) ==
    /\ Begin("analyze-speech", "Analyze this spoken query: " \o content, FALSE)
    /\ UNCHANGED <<copiedContent, reads, config, app, confirms>>
    /\ UNCHANGED presenceVars

\* globalShortcut 'Alt+C', main.ts:305-316.
AltC ==
    /\ IF Truthy(Trim(clipboard))
       THEN Begin("Alt+C", clipboard, FALSE)
       ELSE /\ sent' = Append(sent,
                          ReqMsg(Len(reqs) + 1, "analysis-complete",
                                 Str("Clipboard is empty. Copy some text and try again.")))
            /\ reqs' = Append(reqs, [NewRequest("Alt+C", clipboard, FALSE) EXCEPT
                                         !.pc = "done", !.invoked = FALSE])
            /\ UNCHANGED <<effects, clipboard>>
    /\ UNCHANGED <<copiedContent, reads, config, app, confirms>>
    /\ UNCHANGED presenceVars

\* axios.post of run i settles: analyzeContent returns and the handler goes on.
NetReply(i, response) ==
    /\ i \in 1..Len(reqs)
    /\ reqs[i].pc = "net"
    /\ Continue(i, [reqs[i] EXCEPT !.settled = response],
                AnalyzeReturn(response, config), sent, reqs)
    /\ UNCHANGED <<copiedContent, reads, config, app, confirms>>
    /\ UNCHANGED presenceVars

\* The endings of an awaited call: the output of exec matters, of
\* shell.openExternal only whether it rejected.
EndingsOf(call) ==
    IF call.kind = "exec" THEN Endings
    ELSE {e \in Endings : e.stdout = "" /\ e.stderr = ""}

\* The call that executeAction awaits in run i ends: executeAction returns
\* and the handler sends the result.
EffectDone(i, ending) ==
    /\ i \in 1..Len(reqs)
    /\ reqs[i].pc = "effect"
    /\ ending \in EndingsOf(reqs[i].wait)
    /\ sent' = Append(sent, ReqMsg(i, ResultChannel(reqs[i].actionData),
                                   ExecuteActionEnd(reqs[i].actionData, ending)))
    /\ reqs' = [reqs EXCEPT ![i].pc = "done", ![i].ending = ending]
    /\ UNCHANGED <<effects, clipboard, copiedContent, reads, config, app, confirms>>
    /\ UNCHANGED presenceVars

\* The settings the renderer may save.
Settings == {[apiKey |-> k] : k \in {"", "sk-or-v1-0"}}

\* ipcMain.on('save-settings'), main.ts:443-445 and saveConfig, 86-105.
SaveSettings(settings) ==
    /\ Cardinality({k \in 1..Len(sent) : sent[k].ch = "config-updated"}) < MaxSaves
    /\ config' = settings @@ config
    /\ sent' = Append(sent, ReqMsg(0, "config-updated", Obj(config')))
    /\ UNCHANGED <<clipboard, copiedContent, reads, reqs, effects, app, confirms>>
    /\ UNCHANGED presenceVars

----------------------------------------------------------------------------
(* The 'confirm-replacement' handler, main.ts:447-458, and the application *)
(* that has the focus and receives the keys.                               *)

\* The texts that may be selected in the application that has the focus.
Selections == {"", "teh text"}

\* A call of the 'confirm-replacement' run c outside the process.
ConfirmCall(c, kind, arg) == [req |-> 0 - c, kind |-> kind, arg |-> arg]

\* The awaits of the handler in order, main.ts:451-454, with the call and
\* the keys of each.
KeySteps ==
    <<[call |-> "pressKey", keys |-> "LeftControl+X"],
      [call |-> "releaseKey", keys |-> "LeftControl+X"],
      [call |-> "pressKey", keys |-> "LeftControl+V"],
      [call |-> "releaseKey", keys |-> "LeftControl+V"]>>

KeyCall(c, k) == ConfirmCall(c, "keyboard." \o KeySteps[k].call, KeySteps[k].keys)

\* The clipboard once the application has received the keys of step k: Ctrl+X
\* moves a selection to the clipboard.
ClipboardAfterKey(k, focused, clip) ==
    IF KeySteps[k] = [call |-> "pressKey", keys |-> "LeftControl+X"]
           /\ focused.selection # ""
    THEN focused.selection
    ELSE clip

\* The application once it has received the keys of step k: Ctrl+X removes
\* the selection, Ctrl+V puts the clipboard text in its place.
AppAfterKey(k, focused, clip) ==
    IF KeySteps[k] = [call |-> "pressKey", keys |-> "LeftControl+X"]
    THEN [focused EXCEPT !.selection = ""]
    ELSE IF KeySteps[k] = [call |-> "pressKey", keys |-> "LeftControl+V"]
    THEN [selection |-> "", pasted |-> Append(focused.pasted, clip)]
    ELSE focused

\* ipcMain.on('confirm-replacement'), main.ts:447-451: the clipboard write
\* and the call of the first pressKey, which the handler awaits.
ConfirmReplacement(newText) ==
    /\ clipboard' = newText
    /\ confirms' = Append(confirms,
                          [newText |-> newText, step |-> 1, done |-> FALSE,
                           error |-> FALSE, selected |-> app.selection,
                           atPaste |-> ""])
    /\ effects' = effects \o <<ConfirmCall(Len(confirms) + 1, "clipboard.writeText", newText),
                               KeyCall(Len(confirms) + 1, 1)>>
    /\ UNCHANGED <<app, sent, reqs, config, copiedContent, reads>>
    /\ UNCHANGED presenceVars

\* The key call that run c awaits ends, main.ts:451-457: rejected, the catch
\* logs it and the handler ends; resolved, the application has received the
\* keys and the handler makes its next call, or ends after the last.
KeyDone(c, rejects) ==
    /\ c \in 1..Len(confirms)
    /\ ~confirms[c].done
    /\ IF rejects
       THEN /\ confirms' = [confirms EXCEPT ![c].done = TRUE, ![c].error = TRUE]
            /\ UNCHANGED <<clipboard, app, effects>>
       ELSE \E k \in {confirms[c].step} :
            /\ clipboard' = ClipboardAfterKey(k, app, clipboard)
            /\ app' = AppAfterKey(k, app, clipboard)
            /\ confirms' = [confirms EXCEPT
                               ![c].step = k + 1,
                               ![c].done = (k = Len(KeySteps)),
                               ![c].selected = IF k = 1 THEN app.selection ELSE @,
                               ![c].atPaste = IF KeySteps[k].keys = "LeftControl+V"
                                                 /\ KeySteps[k].call = "pressKey"
                                              THEN clipboard ELSE @]
            /\ effects' = IF k < Len(KeySteps) THEN Append(effects, KeyCall(c, k + 1))
                          ELSE effects
    /\ UNCHANGED <<sent, reqs, config, copiedContent, reads>>
    /\ UNCHANGED presenceVars

\* main.ts:24-29 and 340-341: the state when the timers start.
NoTick == [obs |-> "none", vis |-> TRUE, flag |-> FALSE, call |-> "none",
           visAfter |-> TRUE, flagAfter |-> FALSE, stdout |-> "", error |-> FALSE,
           hides |-> 0, shows |-> 0]

InitState ==
    /\ copiedContent = ""
    /\ sent = <<>>
    /\ reads = <<>>
    /\ visible = TRUE
    /\ isHiddenForFullscreen = FALSE
    /\ queries = <<>>
    /\ nQueries = 0
    /\ lastTick = NoTick
    /\ run = [obs |-> "none", hides |-> 0, shows |-> 0]
    /\ reqs = <<>>
    /\ effects = <<>>
    /\ app = [selection |-> "", pasted |-> <<>>]
    /\ confirms = <<>>

InitClip ==
    /\ InitState
    /\ clipboard \in Texts
    /\ activeWindow = "WIDTH=1920\nHEIGHT=1080\n"
    /\ config = DefaultConfig

NextClip ==
    \/ \E t \in Texts : UserCopies(t)
    \/ PollClipboard

SpecClip == InitClip /\ [][NextClip]_vars

InitPresence ==
    /\ InitState
    /\ clipboard = ""
    /\ activeWindow \in Outputs
    /\ config = DefaultConfig

NextPresence ==
    \/ \E out \in Outputs : ActiveWindowChanges(out)
    \/ WindowManagerHides
    \/ WindowManagerShows
    \/ CheckFullscreen
    \/ \E i \in 1..MaxPending, fails \in BOOLEAN : XdotoolExits(i, fails)
    \/ \E i \in 1..MaxPending : ExecCallback(i)

SpecPresence == InitPresence /\ [][NextPresence]_vars

\* The pipeline starts in a state the clipboard timer has produced: nothing
\* accepted yet, or one text accepted.
InitAsk ==
    /\ visible = TRUE
    /\ isHiddenForFullscreen = FALSE
    /\ queries = <<>>
    /\ nQueries = 0
    /\ lastTick = NoTick
    /\ run = [obs |-> "none", hides |-> 0, shows |-> 0]
    /\ activeWindow = "WIDTH=1920\nHEIGHT=1080\n"
    /\ reqs = <<>>
    /\ effects = <<>>
    /\ confirms = <<>>
    /\ app \in {[selection |-> t, pasted |-> <<>>] : t \in Selections}
    /\ \E k \in {"", "sk-or-v1-0"} : config = [DefaultConfig EXCEPT !.apiKey = k]
    /\ clipboard \in {"", "A"}
    /\ copiedContent \in {"", "A"}
    /\ reads = IF copiedContent = "" THEN <<>> ELSE <<copiedContent>>
    /\ sent = IF copiedContent = "" THEN <<>>
              ELSE <<Msg("content-copied", Str(copiedContent))>>

NextAsk ==
    \/ Len(reqs) < MaxRequests /\ \E q \in {"fix the typo"} : AskAi(q)
    \/ Len(reqs) < MaxRequests /\ \E c \in {"what is a monad"} : AnalyzeSpeech(c)
    \/ Len(reqs) < MaxRequests /\ AltC
    \/ Len(confirms) < MaxConfirms /\ \E t \in {"fixed text"} : ConfirmReplacement(t)
    \/ \E c \in 1..MaxConfirms, rejects \in BOOLEAN : KeyDone(c, rejects)
    \/ \E i \in 1..MaxRequests, response \in Settlements : NetReply(i, response)
    \/ \E i \in 1..MaxRequests, ending \in Endings : EffectDone(i, ending)
    \/ \E settings \in Settings : SaveSettings(settings)

SpecAsk == InitAsk /\ [][NextAsk]_vars

\* Triggers that overlap: a handler may start while the completion calls of
\* earlier ones are outstanding.
OverlapSettlements ==
    { [kind |-> "ok", status |-> 200, data |-> BodyWith(Str("Hello, how can I help?"))],
      [kind |-> "ok", status |-> 200,
       data |-> BodyWith(Str(ActionReply("run_command", "command", "echo hi")))],
      [kind |-> "timeout", status |-> 0, data |-> Undef] }

InitOverlap ==
    /\ InitState
    /\ clipboard = "A"
    /\ activeWindow = "WIDTH=1920\nHEIGHT=1080\n"
    /\ \E k \in {"", "sk-or-v1-0"} : config = [DefaultConfig EXCEPT !.apiKey = k]

NextOverlap ==
    \/ Len(reqs) < MaxOverlap /\ \E q \in {"fix the typo"} : AskAi(q)
    \/ Len(reqs) < MaxOverlap /\ \E c \in {"what is a monad"} : AnalyzeSpeech(c)
    \/ Len(reqs) < MaxOverlap /\ AltC
    \/ \E i \in 1..MaxOverlap, response \in OverlapSettlements : NetReply(i, response)
    \/ \E i \in 1..MaxOverlap, ending \in Endings : EffectDone(i, ending)

SpecOverlap == InitOverlap /\ [][NextOverlap]_vars

\* The clipboard timer running beside an 'ask-ai' run whose reply asks for a
\* replacement.
ReplaceSettlements ==
    { [kind |-> "ok", status |-> 200,
       data |-> BodyWith(Str(ActionReply("replace_text", "newText", "fixed text")))],
      [kind |-> "timeout", status |-> 0, data |-> Undef] }

InitReplace ==
    /\ InitState
    /\ clipboard \in {"", "A"}
    /\ activeWindow = "WIDTH=1920\nHEIGHT=1080\n"
    /\ config = [DefaultConfig EXCEPT !.apiKey = "sk-or-v1-0"]

NextReplace ==
    \/ \E t \in {"A", "B", ""} : UserCopies(t)
    \/ PollClipboard
    \/ Len(reqs) < MaxRequests /\ \E q \in {"fix the typo"} : AskAi(q)
    \/ \E i \in 1..MaxRequests, response \in ReplaceSettlements : NetReply(i, response)

SpecReplace == InitReplace /\ [][NextReplace]_vars

----------------------------------------------------------------------------
(* Claims about the clipboard timer. *)

\* The texts carried by the 'content-copied' messages sent so far.
Emitted ==
    [i \in 1..Len(sent) |-> sent[i].arg.s]

\* What a de-duplicating, blank-suppressing source emits for a sequence of
\* reads when `last` was the last observed text.
RECURSIVE ExpectedEmits(_, _)
ExpectedEmits(rs, last) ==
    IF rs = <<>> THEN <<>>
    ELSE IF Head(rs) # last /\ Trim(Head(rs)) # ""
         THEN <<Head(rs)>> \o ExpectedEmits(Tail(rs), Head(rs))
         ELSE ExpectedEmits(Tail(rs), last)

\* C1: over every sequence of poll reads, a read emits 'content-copied'
\* exactly when its text differs from the last observed text and is non-blank
\* after trimming, the last observed text is the last emitted one (it changes
\* exactly on an emit), and the reads [A, A, B, B, B, C] emit [A, B, C].
C1_ClipboardDedup ==
    /\ \A i \in 1..Len(sent) : sent[i].ch = "content-copied"
    /\ Emitted = ExpectedEmits(reads, "")
    /\ copiedContent = (IF Emitted = <<>> THEN "" ELSE Emitted[Len(Emitted)])
    /\ reads = <<"A", "A", "B", "B", "B", "C">> => Emitted = <<"A", "B", "C">>

C1_Witness ==
    /\ reads = <<"A", "A", "B", "B", "B", "C">>
    /\ Emitted = <<"A", "B", "C">>
    /\ copiedContent = "C"

\* A step of the clipboard timer that read a blank text.
BlankPollStep ==
    /\ Len(reads') = Len(reads) + 1
    /\ Trim(reads'[Len(reads')]) = ""

\* C2: a poll read that is blank after trimming sends nothing and leaves the
\* last observed text unchanged, whatever the state before it; the reads
\* [A, blank, A] emit A once.
C2_BlankSuppressed ==
    /\ [][BlankPollStep => sent' = sent /\ copiedContent' = copiedContent]_vars
    /\ [](\A b \in {"", " \n"} : reads = <<"A", b, "A">> => Emitted = <<"A">>)

C2_Witness ==
    /\ reads = <<"A", " \n", "A">>
    /\ Emitted = <<"A">>
    /\ copiedContent = "A"

----------------------------------------------------------------------------
(* Claims about the fullscreen monitor. *)

\* The last callback left visibility and flag as it found them and called
\* neither hide nor show.
LastTickIsNoOp ==
    /\ lastTick.call = "none"
    /\ lastTick.visAfter = lastTick.vis
    /\ lastTick.flagAfter = lastTick.flag

\* C7: a run of consecutive callbacks that all observe Fullscreen makes at
\* most one hide call, and none once the flag is set; a callback that observes
\* NotFullscreen while the overlay is visible makes no show call; these
\* callbacks leave visibility and flag unchanged.
C7_HysteresisIdempotent ==
    /\ run.obs = "Fullscreen" => run.hides <= 1
    /\ (lastTick.obs = "Fullscreen" /\ lastTick.flag) => LastTickIsNoOp
    /\ (lastTick.obs = "NotFullscreen" /\ lastTick.vis) => LastTickIsNoOp
    /\ (run.obs = "NotFullscreen" /\ lastTick.vis) => lastTick.call # "show"

C7_Witness ==
    /\ run.obs = "Fullscreen" /\ run.hides = 1
    /\ lastTick.obs = "Fullscreen" /\ lastTick.flag /\ ~lastTick.vis
    /\ LastTickIsNoOp

\* C8: a callback that observes NotFullscreen while the overlay is hidden and
\* the flag is false does not show the overlay and leaves the flag false.
C8_OverrideProtection ==
    (lastTick.obs = "NotFullscreen" /\ ~lastTick.vis /\ ~lastTick.flag)
        => (lastTick.call = "none" /\ ~lastTick.visAfter /\ ~lastTick.flagAfter)

C8_Witness ==
    /\ lastTick.obs = "NotFullscreen" /\ ~lastTick.vis /\ ~lastTick.flag
    /\ lastTick.call = "none"
    /\ ~visible /\ ~isHiddenForFullscreen

\* C13: a callback that observes Fullscreen while the overlay is visible
\* hides the overlay and leaves the flag set, whatever the flag was before
\* (also when something else had shown the overlay while the flag was set).
C13_FullscreenHidesVisible ==
    (lastTick.obs = "Fullscreen" /\ lastTick.vis)
        => (lastTick.call = "hide" /\ ~lastTick.visAfter /\ lastTick.flagAfter)

\* The flag changes only in a callback, set by one that hides and cleared by
\* one that shows, so the hide and show calls of the monitor alternate,
\* beginning with a hide.
CallsAlternate ==
    /\ isHiddenForFullscreen = lastTick.flagAfter
    /\ lastTick.call = "hide" => (~lastTick.flag /\ lastTick.flagAfter /\ ~lastTick.visAfter)
    /\ lastTick.call = "show" => (lastTick.flag /\ ~lastTick.flagAfter /\ lastTick.visAfter)
    /\ lastTick.call = "none" => lastTick.flagAfter = lastTick.flag
    /\ lastTick.hides - lastTick.shows = (IF isHiddenForFullscreen THEN 1 ELSE 0)

\* C19 as stated: whenever the flag is set the overlay is not visible, the
\* flag is set only with a hide and cleared only with a show, and the hide
\* and show calls of the monitor alternate, beginning with a hide.
C19_FlagImpliesHidden ==
    /\ isHiddenForFullscreen => ~visible
    /\ CallsAlternate

\* This step leads to a state with the flag set and the overlay visible.
EntersFlaggedVisible ==
    /\ isHiddenForFullscreen' /\ visible'
    /\ ~(isHiddenForFullscreen /\ visible)

\* C19 amended: the flag is set only with a hide and cleared only with a
\* show, the hide and show calls of the monitor alternate, beginning with a
\* hide, no callback leaves the flag set and the overlay visible unless it
\* found them so, and a state with the flag set and the overlay visible is
\* entered only when something other than the monitor shows the overlay.
C19_FlagFollowsCalls ==
    /\ [](CallsAlternate
            /\ ((lastTick.flagAfter /\ lastTick.visAfter)
                    => (lastTick.flag /\ lastTick.vis /\ lastTick.call = "none")))
    /\ [][EntersFlaggedVisible =>
              (/\ ~visible /\ isHiddenForFullscreen
               /\ UNCHANGED <<queries, nQueries, lastTick, run>>)]_vars

C19_Witness ==
    /\ lastTick.hides = 2 /\ lastTick.shows = 1
    /\ isHiddenForFullscreen /\ visible
    /\ lastTick.call = "hide"

\* The outputs of xdotool for a window that covers the work area.
FullscreenOutputs ==
    { "WIDTH=1920\nHEIGHT=1080\n",
      "GEOMETRY:1920x1080+0+0\n",
      "X=0\nGEOMETRY:1920x1080+0+27\n" }

\* The outputs of xdotool for a window smaller than the work area.
NotFullscreenOutputs ==
    { "GEOMETRY:800x600+10+20\n", "GEOMETRY:1920x1000+0+0\n" }

\* The last callback was of a successful query that printed one of outs.
LastQueryPrinted(outs) ==
    lastTick.obs # "none" /\ ~lastTick.error /\ lastTick.stdout \in outs

\* C20: while the foreground window stays smaller than the work area and
\* the queries succeed, the overlay hidden by the monitor is eventually
\* shown and the flag cleared; while the window covers the work area, the
\* overlay, visible with the flag clear, is eventually hidden.  A callback
\* is a function of the output and the two bits of state, so each callback
\* of a successful query in such a state makes the transition.
C20_FullscreenEventuallyHides ==
    /\ (LastQueryPrinted(NotFullscreenOutputs) /\ ~lastTick.vis /\ lastTick.flag)
          => (lastTick.call = "show" /\ lastTick.visAfter /\ ~lastTick.flagAfter)
    /\ (LastQueryPrinted(FullscreenOutputs) /\ lastTick.vis /\ ~lastTick.flag)
          => (lastTick.call = "hide" /\ ~lastTick.visAfter /\ lastTick.flagAfter)

----------------------------------------------------------------------------
(* Claims about the 'ask-ai' dispatch and the action handlers. *)

\* The messages handler run i has sent, in order.
MessagesOf(i) ==
    LET IsOfRun(m) == m.req = i IN SelectSeq(sent, IsOfRun)

\* The calls outside the process that handler run i has made, in order.
EffectsOf(i) ==
    LET IsOfRun(e) == e.req = i IN SelectSeq(effects, IsOfRun)

\* Handler run i is an 'ask-ai' run whose completion has returned a string.
AskReturned(i) ==
    /\ reqs[i].trigger = "ask-ai"
    /\ reqs[i].returned
    /\ IsString(reqs[i].response)

\* C3: every reply that fails to parse as JSON is surfaced unchanged by
\* exactly one 'ask-complete', with no action handler invoked, no call
\* outside the process, and no error text in place of the reply.
C3_NonJsonIsPlainText ==
    \A i \in 1..Len(reqs) :
        (AskReturned(i) /\ ~JSONParse(reqs[i].response.s).ok) =>
            /\ MessagesOf(i) = <<ReqMsg(i, "analyzing", Undef),
                                 ReqMsg(i, "ask-complete", reqs[i].response)>>
            /\ ~reqs[i].executed
            /\ EffectsOf(i) = <<>>
            /\ reqs[i].pc = "done"

C3_Witness ==
    \E i \in 1..Len(reqs) :
        /\ AskReturned(i)
        /\ reqs[i].response = Str("{\"action\":\"open_url\",")
        /\ reqs[i].settled.kind = "ok"
        /\ MessagesOf(i)[2] = ReqMsg(i, "ask-complete", Str("{\"action\":\"open_url\","))

\* The closed set of action kinds of the wire format.
ActionKind ==
    {"run_command", "open_app", "play_music", "copy_text", "search_web", "open_url",
     "analysis", "replace_text"}

\* Handler run i got a reply that parses as a JSON object whose action is not
\* an action kind.
UnknownActionRun(i) ==
    /\ AskReturned(i)
    /\ \E parsed \in {JSONParse(reqs[i].response.s)} :
          /\ parsed.ok
          /\ parsed.v.t = "obj"
          /\ \A a \in ActionKind : Get(parsed.v, "action") # Str(a)

\* C4: a reply that parses as a JSON object whose action is not an action
\* kind is treated as plain text: executeAction is not called, nothing is
\* called outside the process, and one 'ask-complete' is sent.
C4_UnknownActionIsPlainText ==
    \A i \in 1..Len(reqs) :
        UnknownActionRun(i) =>
            /\ ~reqs[i].executed
            /\ EffectsOf(i) = <<>>
            /\ Len(MessagesOf(i)) = 2
            /\ MessagesOf(i)[2].ch = "ask-complete"

\* Handler run i called executeAction for `action` with params an object.
HandlerRun(i, action) ==
    /\ reqs[i].executed
    /\ Get(reqs[i].actionData, "action") = Str(action)
    /\ Get(reqs[i].actionData, "params").t = "obj"

\* params.k of handler run i.
ParamOf(i, k) == Get(Get(reqs[i].actionData, "params"), k)

\* The text begins with the four characters http.
BeginsWithHttp(url) == Len(url) >= 4 /\ SubSeq(url, 1, 4) = "http"

\* C5: for params.url a string or absent, the open_url handler calls
\* shell.openExternal (once, with the url) only when the url begins with
\* 'http', and then reports "Opened: {url}" once the open has succeeded;
\* for every other url it calls nothing outside the process and reports
\* exactly "Invalid URL provided."
C5_OpenUrlOnlyHttp ==
    \A i \in 1..Len(reqs) :
        (HandlerRun(i, "open_url") /\ ParamOf(i, "url").t \in {"str", "undef"}) =>
            IF IsString(ParamOf(i, "url")) /\ BeginsWithHttp(ParamOf(i, "url").s)
            THEN /\ EffectsOf(i) = <<[req |-> i, kind |-> "openExternal",
                                      arg |-> ParamOf(i, "url").s]>>
                 /\ (reqs[i].pc = "done" /\ ~reqs[i].ending.error) =>
                        MessagesOf(i)[2] =
                            ReqMsg(i, "action-completed",
                                   Str("Opened: " \o ParamOf(i, "url").s))
            ELSE /\ EffectsOf(i) = <<>>
                 /\ reqs[i].pc = "done"
                 /\ MessagesOf(i)[2] =
                        ReqMsg(i, "action-completed", Str("Invalid URL provided."))

C5_Witness ==
    \E i \in 1..Len(reqs) :
        /\ HandlerRun(i, "open_url")
        /\ ParamOf(i, "url") = Str("file:///etc/passwd")
        /\ reqs[i].pc = "done"
        /\ EffectsOf(i) = <<>>

\* The first n characters of t, all of t when it has fewer.
FirstChars(t, n) == IF Len(t) <= n THEN t ELSE SubSeq(t, 1, n)

\* In this step handler run i calls executeAction for copy_text with a text.
CopyTextStep(i) ==
    /\ i \in 1..Len(reqs')
    /\ (i \in 1..Len(reqs) => ~reqs[i].executed)
    /\ reqs'[i].executed
    /\ Get(reqs'[i].actionData, "action") = Str("copy_text")
    /\ Get(reqs'[i].actionData, "params").t = "obj"
    /\ IsString(Get(Get(reqs'[i].actionData, "params"), "text"))

\* C6: for every text, the copy_text handler leaves the whole text on the
\* system clipboard and reports "Copied: ", the first 50 characters of the
\* text (all of it when shorter) and "...": 80 characters are reported by
\* their first 50 and written in full.
C6_CopyTextWritesAll ==
    [][\A i \in 1..MaxRequests + 1 :
          CopyTextStep(i) =>
              \E text \in {Get(Get(reqs'[i].actionData, "params"), "text").s} :
                  /\ clipboard' = text
                  /\ effects' = Append(effects, [req |-> i, kind |-> "clipboard.writeText",
                                                 arg |-> text])
                  /\ sent' = Append(sent, ReqMsg(i, "action-completed",
                                 Str("Copied: " \o FirstChars(text, 50) \o "...")))
                  /\ text = Text80 =>
                        sent'[Len(sent')].arg = Str("Copied: " \o Text50 \o "...")
                  /\ reqs'[i].pc = "done"]_vars

C6_Witness ==
    \E i \in 1..Len(reqs) :
        /\ HandlerRun(i, "copy_text")
        /\ ParamOf(i, "text") = Str(Text80)
        /\ clipboard = Text80
        /\ MessagesOf(i)[2] = ReqMsg(i, "action-completed",
                                     Str("Copied: " \o Text50 \o "..."))

----------------------------------------------------------------------------
(* Claims about analyzeContent. *)

\* C9: a call of analyzeContent without an API key posts nothing and returns
\* the no-key text; a call with a key posts exactly once, whatever the post
\* settles with (a response, an error status, the timeout, a transport
\* error), and returns as soon as the post has settled.
C9_AtMostOneCall ==
    \A i \in 1..Len(reqs) :
        reqs[i].invoked =>
            /\ reqs[i].keyAtCall = "" =>
                  /\ reqs[i].netCalls = 0
                  /\ reqs[i].returned
                  /\ reqs[i].response = Str(NoKeyMessage)
                  /\ reqs[i].settled = NotSettled
            /\ reqs[i].keyAtCall # "" =>
                  /\ reqs[i].netCalls = 1
                  /\ reqs[i].returned <=> reqs[i].settled # NotSettled
                  /\ reqs[i].pc = "net" <=> reqs[i].settled = NotSettled

C9_Witness ==
    \E i \in 1..Len(reqs) :
        /\ reqs[i].invoked
        /\ reqs[i].keyAtCall # ""
        /\ config.apiKey = ""
        /\ reqs[i].settled.kind = "timeout"
        /\ reqs[i].returned
        /\ reqs[i].netCalls = 1

\* The failure kind the completion of handler run i is to be classified as.
FailureKindOf(req) ==
    IF req.keyAtCall = "" THEN "NoApiKey"
    ELSE IF req.settled.kind = "http" /\ req.settled.status = 401 THEN "Unauthorized"
    ELSE IF req.settled.kind = "http" /\ req.settled.status \in {400, 404}
         THEN "ModelUnavailable"
    ELSE IF req.settled.kind \in {"timeout", "network"} THEN "NetworkOrTimeout"
    ELSE IF /\ req.settled.kind = "ok"
            /\ req.settled.data.t = "obj"
            /\ Get(req.settled.data, "choices") \in {Undef, Arr(<<>>)}
         THEN "MalformedResponse"
    ELSE "None"

\* The failure kind a result shows: a result that is none of the texts of
\* the other kinds is taken to show a malformed response.
ShownKind(result) ==
    IF result = Str(NoKeyMessage) THEN "NoApiKey"
    ELSE IF IsString(result) /\ StartsWith(result.s, "Invalid API key") THEN "Unauthorized"
    ELSE IF IsString(result) /\ StartsWith(result.s, "Model '") THEN "ModelUnavailable"
    ELSE IF result = Str(NetworkErrorMessage) THEN "NetworkOrTimeout"
    ELSE "MalformedResponse"

\* C10: every unsuccessful completion returns a result that shows its own
\* failure kind and no other: 401 an invalid key, 400 and 404 an unavailable
\* model, an empty or absent choice list a malformed response, a timeout or
\* a transport error a network failure, a missing key the no-key text.
C10_FailuresDistinguishable ==
    \A i \in 1..Len(reqs) :
        (reqs[i].invoked /\ reqs[i].returned /\ FailureKindOf(reqs[i]) # "None") =>
            ShownKind(reqs[i].response) = FailureKindOf(reqs[i])

----------------------------------------------------------------------------
(* Claims about the pipeline runs and the replacement flow. *)

\* The channels of the terminal notifications.
TerminalChannels == {"analysis-complete", "action-completed", "ask-complete"}

\* The terminal notifications the run with identity id has sent.
TerminalsOf(id) ==
    LET IsTerminal(m) == m.ch \in TerminalChannels IN SelectSeq(MessagesOf(id), IsTerminal)

\* C11: every run of the Alt+C, 'analyze-speech', 'ask-ai' and
\* 'confirm-replacement' handlers sends at most one terminal notification,
\* and exactly one by the time it has ended, whatever path it took.
C11_OneTerminalNotification ==
    /\ \A i \in 1..Len(reqs) :
          /\ Len(TerminalsOf(i)) <= 1
          /\ reqs[i].pc = "done" => Len(TerminalsOf(i)) = 1
    /\ \A c \in 1..Len(confirms) :
          /\ Len(TerminalsOf(0 - c)) <= 1
          /\ confirms[c].done => Len(TerminalsOf(0 - c)) = 1

\* Handler run i got a reply that parses as a JSON object whose action is
\* none of replace_text, analysis and the kinds that are executed.
UnmatchedActionRun(i) ==
    /\ AskReturned(i)
    /\ reqs[i].pc = "done"
    /\ \E parsed \in {JSONParse(reqs[i].response.s)} :
          /\ parsed.ok
          /\ parsed.v.t = "obj"
          /\ \A a \in ActionKind : Get(parsed.v, "action") # Str(a)

\* params.response of the reply of handler run i, undefined when absent.
ParamsResponse(i) ==
    Get(Get(JSONParse(reqs[i].response.s).v, "params"), "response")

\* C12: for a reply whose action matches none of replace_text, the silent
\* kinds and analysis, the text surfaced is params.response when that key
\* is present, and the generic notice only when it is absent.
C12_SurfacesParamsResponse ==
    \A i \in 1..Len(reqs) :
        UnmatchedActionRun(i) =>
            MessagesOf(i)[2].arg =
                (IF ParamsResponse(i) # Undef THEN ParamsResponse(i)
                 ELSE Str("Action completed."))

\* The calls a 'confirm-replacement' run makes outside the process when no
\* call fails: the clipboard write, then cut, then paste.
ReplacementCalls(c) ==
    <<ConfirmCall(c, "clipboard.writeText", confirms[c].newText),
      ConfirmCall(c, "keyboard.pressKey", "LeftControl+X"),
      ConfirmCall(c, "keyboard.releaseKey", "LeftControl+X"),
      ConfirmCall(c, "keyboard.pressKey", "LeftControl+V"),
      ConfirmCall(c, "keyboard.releaseKey", "LeftControl+V")>>

\* C14: a 'confirm-replacement' run that ends without error has written
\* newText to the clipboard, then cut, then pasted, the clipboard held
\* newText when the paste was applied, and the text that was selected in the
\* application is replaced by newText.
C14_ReplacementApplied ==
    \A c \in 1..Len(confirms) :
        (confirms[c].done /\ ~confirms[c].error) =>
            /\ EffectsOf(0 - c) = ReplacementCalls(c)
            /\ confirms[c].atPaste = confirms[c].newText
            /\ confirms[c].newText \in {app.pasted[k] : k \in 1..Len(app.pasted)}

\* In this step handler run i routes a replace_text reply with params.
ReplaceTextStep(i) ==
    /\ i \in 1..Len(reqs')
    /\ (i \in 1..Len(reqs) => ~reqs[i].returned)
    /\ reqs'[i].returned
    /\ reqs'[i].trigger = "ask-ai"
    /\ IsString(reqs'[i].response)
    /\ \E parsed \in {JSONParse(reqs'[i].response.s)} :
          /\ parsed.ok
          /\ Get(parsed.v, "action") = Str("replace_text")
          /\ Get(parsed.v, "params").t = "obj"

\* The calls of a 'confirm-replacement' run so far are the first of its
\* calls in order.
IsPrefix(a, b) == Len(a) <= Len(b) /\ a = SubSeq(b, 1, Len(a))

\* C15: the dispatch of a replace_text reply calls no action handler,
\* writes nothing to the clipboard, presses no key and sends only one
\* 'text-replacement' message with oldText and newText; every key call
\* belongs to a 'confirm-replacement' run and follows that run's write of its
\* newText to the clipboard.
C15_ReplaceTextDeferred ==
    /\ [][\A i \in 1..Len(reqs') :
            ReplaceTextStep(i) =>
                /\ UNCHANGED <<clipboard, effects, app, confirms>>
                /\ ~reqs'[i].executed
                /\ reqs'[i].pc = "done"
                /\ Len(sent') = Len(sent) + 1
                /\ sent'[Len(sent')].req = i
                /\ sent'[Len(sent')].ch = "text-replacement"
                /\ DOMAIN sent'[Len(sent')].arg.f = {"oldText", "newText"}
                /\ sent'[Len(sent')].arg.f["newText"] =
                       Get(Get(JSONParse(reqs'[i].response.s).v, "params"), "newText")]_vars
    /\ [](/\ \A k \in 1..Len(effects) :
                effects[k].kind \in {"keyboard.pressKey", "keyboard.releaseKey"}
                    => effects[k].req < 0
          /\ \A c \in 1..Len(confirms) : IsPrefix(EffectsOf(0 - c), ReplacementCalls(c)))

C15_Witness ==
    /\ \E i \in 1..Len(reqs) :
          /\ reqs[i].route = "replace_text"
          /\ MessagesOf(i)[2] =
                 ReqMsg(i, "text-replacement",
                        Obj("oldText" :> Str("A") @@ "newText" :> Str("fixed text")))
    /\ \E c \in 1..Len(confirms) : confirms[c].done /\ ~confirms[c].error
    /\ effects[1] = ConfirmCall(1, "clipboard.writeText", "fixed text")

\* Handler run i got a reply whose action is analysis, with params.
AnalysisRun(i) ==
    /\ AskReturned(i)
    /\ \E parsed \in {JSONParse(reqs[i].response.s)} :
          /\ parsed.ok
          /\ Get(parsed.v, "action") = Str("analysis")
          /\ Get(parsed.v, "params").t = "obj"

\* C16: for a reply whose action is analysis, the text surfaced is
\* params.analysis when present and "No analysis provided." when it is
\* absent or empty, and nothing is called outside the process.
C16_AnalysisOrDefault ==
    \A i \in 1..Len(reqs) :
        AnalysisRun(i) =>
            \E analysis \in {Get(Get(JSONParse(reqs[i].response.s).v, "params"),
                                 "analysis")} :
                /\ MessagesOf(i)[2] =
                       ReqMsg(i, "analysis-complete",
                              IF IsTruthy(analysis) THEN analysis
                              ELSE Str("No analysis provided."))
                /\ EffectsOf(i) = <<>>

----------------------------------------------------------------------------
(* Claims about overlapping triggers. *)

\* The messages of handler run i other than 'analyzing': its results.
ResultsOf(i) ==
    LET IsResult(m) == m.ch # "analyzing" IN SelectSeq(MessagesOf(i), IsResult)

\* In this step handler run i ends.
EndsStep(i) ==
    /\ i \in 1..Len(reqs')
    /\ reqs'[i].pc = "done"
    /\ (i \in 1..Len(reqs) => reqs[i].pc # "done")

\* C17: a trigger that arrives while earlier completion calls are
\* outstanding is not blocked, queued or merged: each run with a key posts
\* its own request for its own content; the result of a run is sent in the
\* very step in which the run ends, so results appear in completion order;
\* a run that has ended has sent exactly one result and a run that has not
\* has sent none.
C17_OverlapIndependent ==
    /\ [](\A i \in 1..Len(reqs) :
            /\ reqs[i].invoked /\ reqs[i].keyAtCall # "" =>
                  /\ reqs[i].netCalls = 1
                  /\ reqs[i].body.user =
                         (IF reqs[i].isAction THEN "Process this user request: "
                          ELSE "Please analyze and summarize this content:\n\n")
                             \o reqs[i].content
            /\ Len(ResultsOf(i)) = (IF reqs[i].pc = "done" THEN 1 ELSE 0)
            /\ (reqs[i].returned /\ reqs[i].trigger # "ask-ai") =>
                   ResultsOf(i) = <<ReqMsg(i, "analysis-complete", reqs[i].response)>>)
    /\ [][\A i \in 1..Len(reqs') :
            EndsStep(i) =>
                /\ IsPrefix(sent, sent')
                /\ i \in 1..Len(reqs) => Len(sent') = Len(sent) + 1
                /\ sent'[Len(sent')].req = i
                /\ sent'[Len(sent')].ch # "analyzing"]_vars

\* Two runs were outstanding together and the later one delivered first.
C17_Witness ==
    /\ Len(reqs) = 2
    /\ reqs[1].pc = "done" /\ reqs[2].pc = "done"
    /\ reqs[1].netCalls = 1 /\ reqs[2].netCalls = 1
    /\ \E a, b \in 1..Len(sent) :
          /\ a < b
          /\ sent[a].req = 2 /\ sent[a].ch # "analyzing"
          /\ sent[b].req = 1 /\ sent[b].ch # "analyzing"
    /\ sent[1].ch = "analyzing" /\ sent[2].ch = "analyzing"

\* C18: a 'text-replacement' message carries as oldText the clipboard text
\* that the prompt of the same run quoted as the current clipboard text,
\* also when the clipboard timer accepts another text while the completion
\* call is outstanding.
C18_OldTextIsPromptText ==
    \A i \in 1..Len(reqs) :
        (reqs[i].route = "replace_text" /\ Trim(reqs[i].copiedAtCall) # "") =>
            /\ reqs[i].content =
                   "The current clipboard/highlighted text is: \""
                       \o reqs[i].copiedAtCall \o "\". User request: fix the typo"
            /\ MessagesOf(i)[2].ch = "text-replacement"
            /\ MessagesOf(i)[2].arg.f["oldText"] = Str(reqs[i].copiedAtCall)

====
